---- MODULE Spec2Model ----
(***************************************************************************)
(* Model of vae-gan/data/build_image_data.py: the conversion of a          *)
(* directory of PNG files into sharded TFRecord files for a train and a    *)
(* validation split.  main checks the flags, _process_datasets discovers   *)
(* and splits the files, _process_image_files partitions a split between   *)
(* num_threads worker threads and joins them, and every worker             *)
(* (_process_image_files_batch) writes its own shard files.                *)
(*                                                                         *)
(* Python indices are kept 0-based: a range <<a, b>> is the half-open      *)
(* interval [a, b) and filenames[i] of the code is fns[i + 1] here.        *)
(* A file is identified by its position in the result of tf.gfile.Glob.    *)
(* Float arithmetic is modelled by exact rational arithmetic.               *)
(* validation_size is a binary fraction VNum / 2^VBits, on which the       *)
(* double arithmetic of int(len * (1 - validation_size)) is exact, and the *)
(* doubles of np.linspace truncate to the same integers as the rationals   *)
(* for every length and count within the bounds.                           *)
(***************************************************************************)
EXTENDS Integers, Sequences, FiniteSets, TLC

\* ---------------------------------------------------------------- bounds
MaxLen == 5          \* at most this many image files in data_directory
MaxShards == 4       \* FLAGS.num_shards ranges over 1..MaxShards
MaxThreads == 3      \* FLAGS.num_threads ranges over 1..MaxThreads
MaxBad == 1          \* at most this many files that fail to decode
VBits == 2           \* FLAGS.validation_size has this many binary digits

VDen == 2 ^ VBits    \* FLAGS.validation_size is VNum / VDen

Names == {"train", "validation"}

VARIABLES
  num_shards,            \* FLAGS.num_shards
  num_threads,           \* FLAGS.num_threads
  validation_size,       \* FLAGS.validation_size, as the numerator over VDen
  matching_files,        \* what tf.gfile.Glob finds in data_directory
  bad,                   \* the files on which coder.decode_png raises
  main_pc,               \* position of the main thread
  name,                  \* the split _process_image_files is working on
  filenames,             \* the shuffled list of _process_datasets
  num_train_files,
  num_validation_files,
  train_filenames,
  validation_filenames,
  ranges,                \* per split: the worker ranges
  launched,              \* number of threads started in the launch loop
  threads,               \* per split and thread_index: the worker's locals
  files,                 \* output_directory: file name -> records written
  opens,                 \* per file name: the workers that opened a writer on it
  open_writers,          \* writers opened and not closed: <<split, thread, file>>
  decode_failed,         \* the splits in which a worker died on a decode error
  discovered             \* _find_image_files has run

vars == <<num_shards, num_threads, validation_size, matching_files, bad,
          main_pc, name, filenames, num_train_files, num_validation_files,
          train_filenames, validation_filenames, ranges, launched, threads,
          files, opens, open_writers, decode_failed, discovered>>

flags == <<num_shards, num_threads, validation_size, matching_files, bad>>

\* ------------------------------------------------------- pure functions

\* a conversion that rounds to the nearest integer instead of truncating
AsTypeIntRounding(n, d) == (2 * n + d) \div (2 * d)

\* ndarray.astype(int) of the rational n / d (d > 0): truncation toward zero
AsTypeInt(n, d) == IF n >= 0 THEN n \div d ELSE -((-n) \div d)

\* np.linspace(..., endpoint=False): the last boundary falls short of stop
LinspaceNoEndpoint(start, stop, num) ==
  [k \in 1..num |-> start + ((k - 1) * (stop - start)) \div num]

\* np.linspace(start, stop, num).astype(int) for num >= 2:
\* step = (stop - start) / (num - 1), y[k] = k * step + start, y[-1] = stop
Linspace(start, stop, num) ==
  LET div == num - 1
      delta == stop - start
  IN [k \in 1..num |->
        IF k = num THEN stop
        ELSE AsTypeInt(start * div + (k - 1) * delta, div)]

\* ranges of one fixed width, the remainder of the division left out
RangesFixedWidth(spacing) ==
  LET n == Len(spacing) - 1
      width == spacing[n + 1] \div n
  IN [i \in 1..n |-> <<(i - 1) * width, i * width>>]

\* the loop of _process_image_files that pairs consecutive boundaries
Ranges(spacing) == [i \in 1..(Len(spacing) - 1) |-> <<spacing[i], spacing[i + 1]>>]

\* '%.5d' % n : at least five decimal digits, zero padded
RECURSIVE DecimalDigits(_)
DecimalDigits(n) == IF n < 10 THEN <<n>> ELSE Append(DecimalDigits(n \div 10), n % 10)

Pad5(n) ==
  LET d == DecimalDigits(n)
  IN IF Len(d) >= 5 THEN d ELSE [k \in 1..(5 - Len(d)) |-> 0] \o d

\* '%s-%.5d-of-%.5d' % (name, shard, num_shards)
OutputFilename(nm, shard, n) == <<nm, Pad5(shard), "of", Pad5(n)>>

\* random.seed(12345); random.shuffle(list(range(n))) (CPython 3)
ShuffledIndex(n) ==
  CASE n = 0 -> <<>>
    [] n = 1 -> <<0>>
    [] n = 2 -> <<0, 1>>
    [] n = 3 -> <<2, 0, 1>>
    [] n = 4 -> <<1, 0, 2, 3>>
    [] n = 5 -> <<4, 2, 1, 0, 3>>
    [] n = 6 -> <<5, 4, 1, 2, 0, 3>>
    [] n = 7 -> <<6, 4, 1, 2, 0, 5, 3>>
    [] n = 8 -> <<3, 1, 7, 4, 2, 0, 5, 6>>

\* _find_image_files: the glob result reordered by the shuffled index
FindImageFiles(found) ==
  LET idx == ShuffledIndex(Len(found))
  IN [k \in 1..Len(found) |-> found[idx[k] + 1]]

\* int(len(filenames) * (1 - FLAGS.validation_size))
NumTrainFiles(len, vnum) == AsTypeInt(len * (VDen - vnum), VDen)

\* filenames[:n]
Prefix(fns, n) == SubSeq(fns, 1, n)

\* filenames[n:], the count used as a start index
SuffixFromCount(fns, n) == SubSeq(fns, n + 1, Len(fns))

\* filenames[-n:] for n > 0
Suffix(fns, n) == SubSeq(fns, Len(fns) - n + 1, Len(fns))

Filenames(nm) == IF nm = "train" THEN train_filenames ELSE validation_filenames

\* shards dealt out to the threads in turn
ShardRoundRobin(thread_index, num_shards_per_batch, s) ==
  s * num_threads + thread_index

\* shard = thread_index * num_shards_per_batch + s
Shard(thread_index, num_shards_per_batch, s) == thread_index * num_shards_per_batch + s

NoFile == <<>>

IdleThread == [pc |-> "idle", s |-> 0, i |-> 0, shard_ranges |-> <<>>,
               num_shards_per_batch |-> 0, counter |-> 0, opened |-> <<>>,
               writer |-> NoFile]

Terminated(t) == t.pc \in {"done", "failed"}

\* ------------------------------------------------------------------ Init

Init ==
  /\ num_shards \in 1..MaxShards
  /\ num_threads \in 1..MaxThreads
  /\ validation_size \in 0..(VDen - 1)
  /\ \E len \in 0..MaxLen : matching_files = [k \in 1..len |-> k - 1]
  /\ bad \in {b \in SUBSET (0..(MaxLen - 1)) :
                /\ Cardinality(b) <= MaxBad
                /\ \A f \in b : f < Len(matching_files)}
  /\ main_pc = "main"
  /\ name = "none"
  /\ filenames = <<>>
  /\ num_train_files = 0
  /\ num_validation_files = 0
  /\ train_filenames = <<>>
  /\ validation_filenames = <<>>
  /\ ranges = [nm \in Names |-> <<>>]
  /\ launched = 0
  /\ threads = [nm \in Names |-> [w \in 0..(num_threads - 1) |-> IdleThread]]
  /\ files = [f \in {} |-> <<>>]
  /\ opens = [f \in {} |-> <<>>]
  /\ open_writers = {}
  /\ decode_failed = {}
  /\ discovered = FALSE

\* ---------------------------------------------------------- main thread

\* main without the assert (as when asserts are stripped)
MainUnchecked ==
  /\ main_pc = "main"
  /\ main_pc' = "datasets"
  /\ UNCHANGED <<flags, name, filenames, num_train_files, num_validation_files,
                 train_filenames, validation_filenames, ranges, launched,
                 threads, files, opens, open_writers, decode_failed, discovered>>

\* main: the assert on the flags, before _process_datasets is called
Main ==
  /\ main_pc = "main"
  /\ main_pc' = IF num_shards % num_threads # 0 THEN "failed" ELSE "datasets"
  /\ UNCHANGED <<flags, name, filenames, num_train_files, num_validation_files,
                 train_filenames, validation_filenames, ranges, launched,
                 threads, files, opens, open_writers, decode_failed, discovered>>

\* _process_datasets up to the first if: discovery and the two counts
ProcessDatasets ==
  /\ main_pc = "datasets"
  /\ filenames' = FindImageFiles(matching_files)
  /\ discovered' = TRUE
  /\ num_train_files' = NumTrainFiles(Len(filenames'), validation_size)
  /\ num_validation_files' = Len(filenames') - num_train_files'
  /\ main_pc' = "train"
  /\ UNCHANGED <<flags, name, train_filenames, validation_filenames, ranges,
                 launched, threads, files, opens, open_writers, decode_failed>>

\* _process_image_files up to the launch loop: the worker ranges
ProcessImageFilesBegin(nm, fns) ==
  /\ name' = nm
  /\ ranges' = [ranges EXCEPT ![nm] = Ranges(Linspace(0, Len(fns), num_threads + 1))]
  /\ launched' = 0
  /\ main_pc' = "launch"

\* the train split processed without the test of its count
TrainSplitUnguarded ==
  /\ main_pc = "train"
  /\ train_filenames' = Prefix(filenames, num_train_files)
  /\ ProcessImageFilesBegin("train", train_filenames')
  /\ UNCHANGED <<flags, filenames, num_train_files, num_validation_files,
                 validation_filenames, threads, files, opens, open_writers,
                 decode_failed, discovered>>

\* if num_train_files != 0: ... _process_image_files('train', ...)
TrainSplit ==
  /\ main_pc = "train"
  /\ IF num_train_files # 0
       THEN /\ train_filenames' = Prefix(filenames, num_train_files)
            /\ ProcessImageFilesBegin("train", train_filenames')
       ELSE /\ main_pc' = "validation"
            /\ UNCHANGED <<train_filenames, name, ranges, launched>>
  /\ UNCHANGED <<flags, filenames, num_train_files, num_validation_files,
                 validation_filenames, threads, files, opens, open_writers,
                 decode_failed, discovered>>

\* if num_validation_files != 0: ... _process_image_files('validation', ...)
ValidationSplit ==
  /\ main_pc = "validation"
  /\ IF num_validation_files # 0
       THEN /\ validation_filenames' = Suffix(filenames, num_validation_files)
            /\ ProcessImageFilesBegin("validation", validation_filenames')
       ELSE /\ main_pc' = "done"
            /\ UNCHANGED <<validation_filenames, name, ranges, launched>>
  /\ UNCHANGED <<flags, filenames, num_train_files, num_validation_files,
                 train_filenames, threads, files, opens, open_writers,
                 decode_failed, discovered>>

\* one iteration of the launch loop: t.start() of thread number launched
LaunchThread ==
  /\ main_pc = "launch"
  /\ launched < Len(ranges[name])
  /\ threads' = [threads EXCEPT ![name][launched].pc = "begin"]
  /\ launched' = launched + 1
  /\ main_pc' = IF launched' = Len(ranges[name]) THEN "join" ELSE "launch"
  /\ UNCHANGED <<flags, name, filenames, num_train_files, num_validation_files,
                 train_filenames, validation_filenames, ranges, files, opens,
                 open_writers, decode_failed, discovered>>

\* a join that returns while workers are still alive
JoinNoWait ==
  /\ main_pc = "join"
  /\ main_pc' = IF name = "train" THEN "validation" ELSE "done"
  /\ UNCHANGED <<flags, name, filenames, num_train_files, num_validation_files,
                 train_filenames, validation_filenames, ranges, launched,
                 threads, files, opens, open_writers, decode_failed, discovered>>

\* coord.join(threads): returns once no thread is alive.  No worker reports
\* to the coordinator, so join raises nothing when a worker has died.
Join ==
  /\ main_pc = "join"
  /\ \A w \in DOMAIN threads[name] : Terminated(threads[name][w])
  /\ main_pc' = IF name = "train" THEN "validation" ELSE "done"
  /\ UNCHANGED <<flags, name, filenames, num_train_files, num_validation_files,
                 train_filenames, validation_filenames, ranges, launched,
                 threads, files, opens, open_writers, decode_failed, discovered>>

\* ------------------------------------------------------- worker threads

\* _process_image_files_batch up to the shard loop
BatchBegin(nm, w) ==
  /\ threads[nm][w].pc = "begin"
  /\ LET n == Len(ranges[nm])
         per == AsTypeInt(num_shards, n)
     IN threads' = [threads EXCEPT ![nm][w] =
          IF num_shards % n # 0
            THEN [@ EXCEPT !.pc = "failed"]
            ELSE [@ EXCEPT !.pc = IF per = 0 THEN "done" ELSE "open",
                           !.num_shards_per_batch = per,
                           !.shard_ranges = Linspace(ranges[nm][w + 1][1],
                                                     ranges[nm][w + 1][2], per + 1),
                           !.counter = 0,
                           !.s = 0]]
  /\ UNCHANGED <<flags, main_pc, name, filenames, num_train_files,
                 num_validation_files, train_filenames, validation_filenames,
                 ranges, launched, files, opens, open_writers, decode_failed,
                 discovered>>

\* the head of the shard loop: the file name and the TFRecordWriter on it
OpenShard(nm, w) ==
  LET t == threads[nm][w]
      shard == Shard(w, t.num_shards_per_batch, t.s)
      output_file == OutputFilename(nm, shard, num_shards)
  IN /\ t.pc = "open"
     /\ files' = [f \in DOMAIN files \cup {output_file} |->
                    IF f = output_file THEN <<>> ELSE files[f]]
     /\ opens' = [f \in DOMAIN opens \cup {output_file} |->
                    IF f = output_file
                      THEN (IF f \in DOMAIN opens THEN opens[f] ELSE <<>>) \o <<<<nm, w>>>>
                      ELSE opens[f]]
     /\ open_writers' = open_writers \cup {<<nm, w, output_file>>}
     /\ threads' = [threads EXCEPT ![nm][w] =
                      [@ EXCEPT !.pc = "write",
                                !.writer = output_file,
                                !.i = t.shard_ranges[t.s + 1],
                                !.opened = Append(@, shard)]]
     /\ UNCHANGED <<flags, main_pc, name, filenames, num_train_files,
                    num_validation_files, train_filenames, validation_filenames,
                    ranges, launched, decode_failed, discovered>>

\* one iteration of the file loop: _process_image raises on a bad file and
\* the thread dies; otherwise the record is appended to the shard
WriteRecord(nm, w) ==
  LET t == threads[nm][w]
      filename == Filenames(nm)[t.i + 1]
  IN /\ t.pc = "write"
     /\ t.i < t.shard_ranges[t.s + 2]
     /\ IF filename \in bad
          THEN /\ threads' = [threads EXCEPT ![nm][w].pc = "failed"]
               /\ decode_failed' = decode_failed \cup {nm}
               /\ UNCHANGED files
          ELSE /\ files' = [files EXCEPT ![t.writer] = Append(@, filename)]
               /\ threads' = [threads EXCEPT ![nm][w] =
                                [@ EXCEPT !.i = @ + 1, !.counter = @ + 1]]
               /\ UNCHANGED decode_failed
     /\ UNCHANGED <<flags, main_pc, name, filenames, num_train_files,
                    num_validation_files, train_filenames, validation_filenames,
                    ranges, launched, opens, open_writers, discovered>>

\* the end of a shard: writer.close() and the next iteration of the shard loop
CloseShard(nm, w) ==
  LET t == threads[nm][w]
  IN /\ t.pc = "write"
     /\ t.i >= t.shard_ranges[t.s + 2]
     /\ open_writers' = open_writers \ {<<nm, w, t.writer>>}
     /\ threads' = [threads EXCEPT ![nm][w] =
                      [@ EXCEPT !.s = @ + 1,
                                !.pc = IF t.s + 1 = t.num_shards_per_batch
                                         THEN "done" ELSE "open"]]
     /\ UNCHANGED <<flags, main_pc, name, filenames, num_train_files,
                    num_validation_files, train_filenames, validation_filenames,
                    ranges, launched, files, opens, decode_failed, discovered>>

Next ==
  \/ Main
  \/ ProcessDatasets
  \/ TrainSplit
  \/ ValidationSplit
  \/ LaunchThread
  \/ Join
  \/ \E nm \in Names : \E w \in DOMAIN threads[nm] : BatchBegin(nm, w)
  \/ \E nm \in Names : \E w \in DOMAIN threads[nm] : OpenShard(nm, w)
  \/ \E nm \in Names : \E w \in DOMAIN threads[nm] : WriteRecord(nm, w)
  \/ \E nm \in Names : \E w \in DOMAIN threads[nm] : CloseShard(nm, w)

Spec == Init /\ [][Next]_vars

\* ------------------------------------------------------------ properties

Length(nm) == Len(Filenames(nm))

\* _process_image_files(nm, ...) has been called
Started(nm) == ranges[nm] # <<>>

\* _process_image_files(nm, ...) has returned
Finished(nm) ==
  /\ Started(nm)
  /\ IF nm = "train" THEN name = "validation" \/ main_pc \in {"validation", "done"}
                     ELSE main_pc = "done"

FilesOf(nm) == {f \in DOMAIN files : f[1] = nm}

RECURSIVE SumOfLengths(_)
SumOfLengths(fs) ==
  IF fs = {} THEN 0
  ELSE LET f == CHOOSE g \in fs : TRUE IN Len(files[f]) + SumOfLengths(fs \ {f})

\* the places <<file, position>> at which the record of file x is written
Places(nm, x) ==
  UNION {{<<f, p>> : p \in {q \in DOMAIN files[f] : files[f][q] = x}} : f \in FilesOf(nm)}

\* C1: when a split in which every file decoded has been processed (with
\* num_shards % num_threads = 0), every worker has written num_shards /
\* num_threads shards, every index of [0, L) is one record of one shard
\* file of the split, and the record counts of the split's files sum to L.
C1_EveryFileWrittenOnce ==
  \A nm \in Names :
    (Finished(nm) /\ nm \notin decode_failed) =>
      /\ \A w \in DOMAIN threads[nm] :
           Len(threads[nm][w].opened) * num_threads = num_shards
      /\ \A idx \in 0..(Length(nm) - 1) :
           Cardinality(Places(nm, Filenames(nm)[idx + 1])) = 1
      /\ SumOfLengths(FilesOf(nm)) = Length(nm)

C1_Witness ==
  /\ Finished("train") /\ Finished("validation")
  /\ decode_failed = {}
  /\ num_threads = 2 /\ num_shards = 4
  /\ Length("train") = 3
  /\ \E f \in FilesOf("train") : Len(files[f]) = 0

\* C2: the worker ranges of a split of length L are num_threads half-open
\* ranges, the first starting at 0, the last ending at L, each with
\* start <= end, and each ending where the next one starts.
C2_RangesPartition ==
  \A nm \in Names :
    Started(nm) =>
      LET r == ranges[nm] IN
      /\ Len(r) = num_threads
      /\ r[1][1] = 0
      /\ r[Len(r)][2] = Length(nm)
      /\ \A i \in 1..Len(r) : r[i][1] <= r[i][2]
      /\ \A i \in 1..(Len(r) - 1) : r[i][2] = r[i + 1][1]

C2_Witness ==
  /\ Started("train") /\ Started("validation")
  /\ num_threads = 3
  /\ Length("train") = 1
  /\ Length("validation") = 4
  /\ \E i \in 1..3 : ranges["train"][i][1] = ranges["train"][i][2]

\* round(n / d) for n >= 0, d > 0, halves to the even neighbour
Round(n, d) ==
  LET q == n \div d
      r == n % d
  IN IF 2 * r < d THEN q
     ELSE IF 2 * r > d THEN q + 1
     ELSE IF q % 2 = 0 THEN q ELSE q + 1

\* boundary i (0..num_threads) of the worker ranges of a split
Boundary(nm, i) == IF i = 0 THEN ranges[nm][1][1] ELSE ranges[nm][i][2]

BegunThreads(nm) == {w \in DOMAIN threads[nm] : threads[nm][w].shard_ranges # <<>>}

IsFloor(b, n, d) == b * d <= n /\ n < (b + 1) * d

Elements(q) == {q[k] : k \in DOMAIN q}

\* both if statements of _process_datasets are behind the main thread
SplitsTaken == main_pc = "done" \/ name = "validation"

C4_DecodeFailureAbortsRun ==
  /\ decode_failed # {} => main_pc # "done"
  /\ "train" \in decode_failed => ~Started("validation")

\* C5: with num_shards % num_threads # 0 main goes from its start to the
\* failed assert only: file discovery never runs, no worker is started
\* and there is no output file.
C5_BadFlagsTouchNothing ==
  num_shards % num_threads # 0 =>
    /\ main_pc \in {"main", "failed"}
    /\ ~discovered
    /\ \A nm \in Names : \A w \in DOMAIN threads[nm] : threads[nm][w].pc = "idle"
    /\ DOMAIN files = {}
    /\ DOMAIN opens = {}

C5_Witness ==
  /\ main_pc = "failed"
  /\ num_shards = 4 /\ num_threads = 3
  /\ Len(matching_files) > 0

Count(nm) == IF nm = "train" THEN num_train_files ELSE num_validation_files

\* C7: a split whose count is zero gets no worker and no output file of
\* its name; with no input file (and flags that pass the check of main)
\* main never fails, never launches a worker and creates no file.
C7_EmptySplitSkipped ==
  /\ \A nm \in Names :
       (discovered /\ Count(nm) = 0) =>
         /\ ~Started(nm)
         /\ \A w \in DOMAIN threads[nm] : threads[nm][w].pc = "idle"
         /\ FilesOf(nm) = {}
         /\ \A f \in DOMAIN opens : f[1] # nm
  /\ (Len(matching_files) = 0 /\ num_shards % num_threads = 0) =>
         /\ main_pc \in {"main", "datasets", "train", "validation", "done"}
         /\ DOMAIN files = {}

C7_Witness ==
  /\ main_pc = "done"
  /\ num_train_files = 0
  /\ num_validation_files = 1
  /\ FilesOf("validation") # {}

C9_JoinBarrierBetweenSplits ==
  (\/ \E w \in DOMAIN threads["validation"] : threads["validation"][w].pc # "idle"
   \/ FilesOf("validation") # {}
   \/ Started("validation")) =>
     \A w \in DOMAIN threads["train"] :
       \/ Terminated(threads["train"][w])
       \/ ~Started("train") /\ threads["train"][w].pc = "idle"

C9_Witness ==
  /\ \A w \in DOMAIN threads["train"] : Terminated(threads["train"][w])
  /\ num_threads = 2
  /\ threads["validation"][0].pc = "write" /\ threads["validation"][0].counter = 1
  /\ threads["validation"][1].pc = "write" /\ threads["validation"][1].counter = 1

\* the position of file x in the file sequence of a split
Pos(nm, x) == CHOOSE p \in 1..Length(nm) : Filenames(nm)[p] = x

Increasing(q) == \A j, k \in DOMAIN q : j < k => q[j] < q[k]

\* the shard files k..num_shards-1 of a split, one after the other
RECURSIVE ConcatFrom(_, _)
ConcatFrom(nm, k) ==
  IF k >= num_shards THEN <<>>
  ELSE files[OutputFilename(nm, k, num_shards)] \o ConcatFrom(nm, k + 1)

\* no worker died and main has returned
Successful == main_pc = "done" /\ decode_failed = {}

\* C10: the records of every shard file are in increasing position of the
\* split's file sequence; a worker has at most one writer open and opens
\* its shards in increasing index; and after a successful run the shard
\* files of a split, in increasing shard index, make up the split's
\* file sequence.
C10_OrderPreserved ==
  /\ \A f \in DOMAIN files :
       Increasing([k \in DOMAIN files[f] |-> Pos(f[1], files[f][k])])
  /\ \A nm \in Names : \A w \in DOMAIN threads[nm] :
       /\ Cardinality({o \in open_writers : o[1] = nm /\ o[2] = w}) <= 1
       /\ Increasing(threads[nm][w].opened)
  /\ Successful =>
       \A nm \in Names : Started(nm) => ConcatFrom(nm, 0) = Filenames(nm)

C10_Witness ==
  /\ Successful
  /\ num_threads = 2 /\ num_shards = 4
  /\ train_filenames = <<4, 2, 1>>
  /\ validation_filenames = <<0, 3>>
  /\ files[OutputFilename("train", 3, 4)] = <<1>>
  /\ files[OutputFilename("validation", 1, 4)] = <<0>>

====
